---- MODULE Spec2Model ----
(***************************************************************************)
(* Client-side session and cache-synchronisation behaviour of the React    *)
(* frontend: the token in localStorage, the route guards, the react-query  *)
(* cache entries `currentUser`, `users`, `items`, and the mutation sites   *)
(* with their onSuccess / onError / onSettled handlers.                    *)
(***************************************************************************)
EXTENDS Integers, Sequences, FiniteSets, TLC

\* ------------------------------------------------------------------ bounds
\* number of mutations that may be pending (submitted, not yet settled)
MaxPending == 1

\* ------------------------------------------------------------- vocabulary
\* localStorage.getItem returns null when the key is not stored
Null == "null"
\* bearer strings the login endpoint may hand out
Tokens == {"t1", "t2"}
\* a request without an Authorization header
NoHeader == <<>>

\* the query keys used by the components
Keys == {"currentUser", "users", "items"}

\* routes below the authenticated layout ("/_layout/...")
LayoutRoutes == {"/", "/items", "/admin", "/settings"}
Routes == LayoutRoutes \cup {"/login", "/reset-password"}
\* the link of a password-recovery mail: the reset route with a token
ResetLink == "/reset-password?token=r1"

\* mutation sites
MutationKinds ==
  {"createUser", "updateUser", "deleteUser",
   "createItem", "updateItem", "deleteItem",
   "updateMe", "changePassword", "deleteMe"}

VARIABLES
  access_token,   \* localStorage["access_token"]: Null or a token
  cache,          \* query cache: key -> "absent" | "fresh" | "stale"
  fetching,       \* keys whose queryFn request is in flight
  pending,        \* mutations whose write request is in flight
  backend,        \* what is assumed of the server: "opaque" | "enforcing"
  unauthed,       \* requests in flight that carry no Authorization header
  server,         \* what the server holds and what the client holds of it:
                  \* a collection (SpecSync), the current user (SpecAdmin)
  location,       \* route the router has settled on
  trace           \* side effects of the last handler, in program order

vars ==
  <<access_token, cache, fetching, pending, backend, unauthed, server,
    location, trace>>

\* a resolver that reads another storage key and so never finds a token
TOKEN_wrongKey(ls) == ""

\* a resolver that answers with the token resolved when the handler started
TOKEN_cached(ls) == IF access_token = Null THEN "" ELSE access_token

\* ------------------------------------------------------------ pure helpers
\* OpenAPI.TOKEN: the resolver handed to the generated client
TOKEN(ls) == IF ls = Null THEN "" ELSE ls

\* isLoggedIn(): presence of the token in the Token Store
isLoggedIn(ls) == ls # Null

\* header attached by the generated client for a resolved token
AuthHeader(tok) == IF tok = "" THEN NoHeader ELSE <<"Bearer", tok>>

\* one side effect of a handler
Eff(op, arg, auth, tok) == [op |-> op, arg |-> arg, auth |-> auth, tok |-> tok]
Note(st, op, arg) ==
  [st EXCEPT !.trace = Append(@, Eff(op, arg, NoHeader, st.token))]

\* an outbound request: the resolver is called while the headers are built
Send(st, what) ==
  [st EXCEPT !.trace =
     Append(@, Eff("send", what, AuthHeader(TOKEN(st.token)), st.token))]

\* a request goes out; under an enforcing backend it is remembered whether
\* it carried a token, since the protected endpoints reject it otherwise
Issue(st, what) ==
  LET sent == Send(st, what) IN
  [sent EXCEPT !.unauthed =
     IF backend = "enforcing" /\ sent.trace[Len(sent.trace)].auth = NoHeader
     THEN @ \cup {what} ELSE @ \ {what}]

\* Layout calls useAuth(), which reads the `currentUser` query
ObservesCurrentUser(loc) == loc \in LayoutRoutes
\* MembersTableBody reads the `users` query on the admin page
ObservesUsers(loc) == loc = "/admin"
\* ItemsTableBody reads the `items` query on the items page
ObservesItems(loc) == loc = "/items"

\* components observing a query key at a location
Observed(key, loc) ==
  \/ key = "currentUser" /\ ObservesCurrentUser(loc)
  \/ key = "users" /\ ObservesUsers(loc)
  \/ key = "items" /\ ObservesItems(loc)

\* ------------------------------------------------------- the client state
\* the client state a handler works on; trace collects its effects
St ==
  [token |-> access_token, cache |-> cache, fetching |-> fetching,
   unauthed |-> unauthed, location |-> location, trace |-> <<>>]

Commit(st) ==
  /\ access_token' = st.token
  /\ cache' = st.cache
  /\ fetching' = st.fetching
  /\ unauthed' = st.unauthed
  /\ location' = st.location
  /\ trace' = st.trace

\* queryClient.invalidateQueries({ queryKey: [key] }): an existing entry is
\* marked stale, and refetched at once when a mounted component observes it
invalidateQueries(st, key) ==
  LET noted  == Note(st, "invalidate", key)
      marked == IF st.cache[key] = "absent"
                THEN noted
                ELSE [noted EXCEPT !.cache[key] = "stale"]
  IN IF marked.cache[key] # "absent" /\ Observed(key, marked.location)
     THEN [Issue(marked, key) EXCEPT !.fetching = @ \cup {key}]
     ELSE marked

showToast(st, status) == Note(st, "toast", status)
onClose(st) == Note(st, "close", "")
reset(st) == Note(st, "reset", "")

\* useAuth().logout(): Token Store.clear()
logout(st) == Note([st EXCEPT !.token = Null], "tokenClear", "")

\* the guard with its test inverted
beforeLoad_layout_inverted(ls) == IF isLoggedIn(ls) THEN "/login" ELSE "pass"

\* the reset-password guard with its test inverted
beforeLoad_resetPassword_inverted(ls) ==
  IF ~isLoggedIn(ls) THEN "/" ELSE "pass"

\* ------------------------------------------------------------ route guards
\* "/_layout" beforeLoad
beforeLoad_layout(ls) == IF ~isLoggedIn(ls) THEN "/login" ELSE "pass"

\* "/reset-password" beforeLoad
beforeLoad_resetPassword(ls) == IF isLoggedIn(ls) THEN "/" ELSE "pass"

\* the part of a URL the router matches a route on
pathname(url) == IF url = ResetLink THEN "/reset-password" ELSE url

\* new URLSearchParams(window.location.search).get("token")
searchToken(url) == IF url = ResetLink THEN "r1" ELSE Null

beforeLoad(route, ls) ==
  CASE route \in LayoutRoutes -> beforeLoad_layout(ls)
    [] pathname(route) = "/reset-password" -> beforeLoad_resetPassword(ls)
    [] OTHER -> "pass"

\* redirects the router follows before it gives up
MaxRedirects == 3

\* the router: run beforeLoad, follow a thrown redirect, render on pass
RECURSIVE navigate(_, _, _)
navigate(st, to, fuel) ==
  LET r == beforeLoad(to, st.token) IN
  IF r = "pass" THEN Note([st EXCEPT !.location = to], "render", to)
  ELSE IF fuel = 0 THEN Note(st, "giveup", to)
  ELSE navigate(Note(st, "redirect", r), r, fuel - 1)

\* Delete without an onSettled handler
Delete_onSettled_missing(st, type) == st

\* Delete whose onSettled picks the other collection
Delete_onSettled_swapped(st, type) ==
  invalidateQueries(st, IF type = "Item" THEN "users" ELSE "items")

\* --------------------------------------------------------- mutation sites
\* Delete whose onSettled invalidates its collection twice
Delete_onSettled_twice(st, type) ==
  invalidateQueries(
    invalidateQueries(st, IF type = "Item" THEN "items" ELSE "users"),
    IF type = "Item" THEN "items" ELSE "users")

\* Delete whose onError swallows the failure
Delete_onError_silent(st, type) == st

\* Delete (DeleteAlert.tsx), type is "Item" or "User"
Delete_onSuccess(st, type) == onClose(showToast(st, "success"))
Delete_onError(st, type) == showToast(st, "error")
Delete_onSettled(st, type) ==
  invalidateQueries(st, IF type = "Item" THEN "items" ELSE "users")

\* AddUser invalidating every collection
AddUser_onSettled_all(st) ==
  invalidateQueries(invalidateQueries(st, "users"), "items")

\* AddUser that writes the new user into the cached list itself
AddUser_onSuccess_optimistic(st) ==
  onClose(reset(showToast(
    Note([st EXCEPT !.cache["users"] = "fresh"], "setQueryData", "users"),
    "success")))

\* AddUser
AddUser_onSuccess(st) == onClose(reset(showToast(st, "success")))
AddUser_onError(st) == showToast(st, "error")
AddUser_onSettled(st) == invalidateQueries(st, "users")

\* UserInformation with the single invalidation its TODO asks about
UserInformation_onSettled_one(st) == invalidateQueries(st, "users")

\* UserInformation (update-me)
UserInformation_onSuccess(st) == showToast(st, "success")
UserInformation_onError(st) == showToast(st, "error")
UserInformation_onSettled(st) ==
  invalidateQueries(invalidateQueries(st, "users"), "currentUser")

\* ChangePassword with the onSettled handler of UserInformation
ChangePassword_onSettled_invalidating(st) ==
  invalidateQueries(invalidateQueries(st, "users"), "currentUser")

\* ChangePassword: no onSettled handler
ChangePassword_onSuccess(st) == reset(showToast(st, "success"))
ChangePassword_onError(st) == showToast(st, "error")
ChangePassword_onSettled(st) == st

\* DeleteConfirmation that logs out whatever the answer
DeleteConfirmation_onError_logout(st) == logout(showToast(st, "error"))

\* DeleteConfirmation that forgets to log out
DeleteConfirmation_onSuccess_noLogout(st) ==
  onClose(showToast(st, "success"))

\* DeleteConfirmation that invalidates before it logs out
DeleteConfirmation_onSuccess_invalidateFirst(st) ==
  onClose(logout(invalidateQueries(showToast(st, "success"), "currentUser")))

\* DeleteConfirmation (delete own account)
DeleteConfirmation_onSuccess(st) == onClose(logout(showToast(st, "success")))
DeleteConfirmation_onError(st) == showToast(st, "error")
DeleteConfirmation_onSettled(st) == invalidateQueries(st, "currentUser")

\* EditUser, AddItem, EditItem: the affected-entry mapping of the cache policy
EditUser_onSettled(st) == invalidateQueries(st, "users")
AddItem_onSettled(st) == invalidateQueries(st, "items")
EditItem_onSettled(st) == invalidateQueries(st, "items")
Form_onSuccess(st) == onClose(reset(showToast(st, "success")))
Form_onError(st) == showToast(st, "error")

onSuccess(kind, st) ==
  CASE kind = "deleteUser" -> Delete_onSuccess(st, "User")
    [] kind = "deleteItem" -> Delete_onSuccess(st, "Item")
    [] kind = "createUser" -> AddUser_onSuccess(st)
    [] kind = "updateMe" -> UserInformation_onSuccess(st)
    [] kind = "changePassword" -> ChangePassword_onSuccess(st)
    [] kind = "deleteMe" -> DeleteConfirmation_onSuccess(st)
    [] OTHER -> Form_onSuccess(st)

onError(kind, st) ==
  CASE kind = "deleteUser" -> Delete_onError(st, "User")
    [] kind = "deleteItem" -> Delete_onError(st, "Item")
    [] kind = "createUser" -> AddUser_onError(st)
    [] kind = "updateMe" -> UserInformation_onError(st)
    [] kind = "changePassword" -> ChangePassword_onError(st)
    [] kind = "deleteMe" -> DeleteConfirmation_onError(st)
    [] OTHER -> Form_onError(st)

onSettled(kind, st) ==
  CASE kind = "deleteUser" -> Delete_onSettled(st, "User")
    [] kind = "deleteItem" -> Delete_onSettled(st, "Item")
    [] kind = "createUser" -> AddUser_onSettled(st)
    [] kind = "updateUser" -> EditUser_onSettled(st)
    [] kind = "createItem" -> AddItem_onSettled(st)
    [] kind = "updateItem" -> EditItem_onSettled(st)
    [] kind = "updateMe" -> UserInformation_onSettled(st)
    [] kind = "changePassword" -> ChangePassword_onSettled(st)
    [] kind = "deleteMe" -> DeleteConfirmation_onSettled(st)

\* how a write request can end: a 2xx response, a rejection of the token
\* (401/403), or any other failure
Outcomes == {"ok", "authError", "error"}
SettledOp(res) ==
  CASE res = "ok" -> "settledOk"
    [] res = "authError" -> "settledAuthErr"
    [] OTHER -> "settledErr"

\* useMutation: when the write settles, onSuccess or onError runs, then
\* onSettled
useMutation_settle(kind, res, st) ==
  LET settled == Note(st, SettledOp(res), kind)
  IN onSettled(kind, IF res = "ok" THEN onSuccess(kind, settled)
                                   ELSE onError(kind, settled))

\* Delete.deleteEntity: the request is chosen by the type string
deleteEntity(st, type) ==
  IF type = "Item" THEN Issue(st, "deleteItem")
  ELSE IF type = "User" THEN Issue(st, "deleteUser")
  ELSE Note(st, "throw", "Unexpected type")

\* the mutationFn of the other sites: one call of the generated client
AddUser_mutationFn(st) == Issue(st, "createUser")
UserInformation_mutationFn(st) == Issue(st, "updateMe")
ChangePassword_mutationFn(st) == Issue(st, "changePassword")
DeleteConfirmation_mutationFn(st) == Issue(st, "deleteMe")
Form_mutationFn(kind, st) == Issue(st, kind)

mutationFn(kind, st) ==
  CASE kind = "deleteUser" -> deleteEntity(st, "User")
    [] kind = "deleteItem" -> deleteEntity(st, "Item")
    [] kind = "createUser" -> AddUser_mutationFn(st)
    [] kind = "updateMe" -> UserInformation_mutationFn(st)
    [] kind = "changePassword" -> ChangePassword_mutationFn(st)
    [] kind = "deleteMe" -> DeleteConfirmation_mutationFn(st)
    [] OTHER -> Form_mutationFn(kind, st)

\* ItemsTable puts an ErrorBoundary around the Suspense of its body
ItemsTable_boundary == "table"
\* Admin puts only a Suspense around MembersTableBody: what the body throws
\* reaches the boundary of the route
Admin_boundary == "route"

\* useSuspenseQuery throws a failed fetch to the nearest boundary when the
\* entry holds no data
queryFailed(st, key) ==
  IF key \in {"users", "items"} /\ Observed(key, st.location)
     /\ st.cache[key] = "absent"
  THEN Note(Note(st, "throw", key), "caught",
            IF key = "items" THEN ItemsTable_boundary ELSE Admin_boundary)
  ELSE st

\* the page whose components hold a mutation site
PageOf(kind) ==
  CASE kind \in {"createUser", "updateUser", "deleteUser"} -> "/admin"
    [] kind \in {"createItem", "updateItem", "deleteItem"} -> "/items"
    [] OTHER -> "/settings"

\* useAuth().isLoading: the first load of `currentUser` is in flight
isLoading(st) ==
  "currentUser" \in st.fetching /\ st.cache["currentUser"] = "absent"

\* Layout: a spinner in place of the routed page while isLoading
Layout(st) == IF isLoading(st) THEN "Spinner" ELSE "Outlet"

\* DeleteConfirmation.onSubmit: mutation.mutate(currentUser!.id), where
\* currentUser is what getQueryData(["currentUser"]) returned; reading .id of
\* undefined throws before mutate is called
DeleteConfirmation_onSubmit(st) ==
  IF st.cache["currentUser"] = "absent"
  THEN Note(Note(st, "onSubmit", "deleteMe"), "throw", "TypeError")
  ELSE mutationFn("deleteMe", Note(st, "mutate", "deleteMe"))

\* the submit handler of a mutation site
onSubmit(kind, st) ==
  IF kind = "deleteMe"
  THEN DeleteConfirmation_onSubmit(st)
  ELSE mutationFn(kind, Note(st, "mutate", kind))

\* the handler reached mutation.mutate
mutated(st) == \E i \in DOMAIN st.trace : st.trace[i].op = "mutate"

\* ---------------------------------------------------------------- actions
\* the server's `users` collection before any write, nothing of it loaded:
\*   version   number of writes the server has applied to the collection
\*   key       the collection followed: "users" or "items"
\*   asked     version the server had when the last GET of it was sent
\*   held      version of the list in the cache entry of the collection
\*   created   version the last create made that was not answered with an
\*             error (0: none)
\*   applied   pending writes the server has already applied
\*   issued    pending writes in the order they were submitted
\*   outOfOrder  a write has settled while an earlier one was still pending
\*   me        user whose data the ['currentUser'] entry holds (Null: none)
\*   askedAs   token the last GET /users/me was sent with
Untouched ==
  [key |-> "users", version |-> 0, asked |-> 0, held |-> 0, created |-> 0,
   applied |-> {}, issued |-> <<>>, outOfOrder |-> FALSE,
   me |-> Null, askedAs |-> Null]

\* the page has just been loaded: main.tsx has run and the router has resolved
\* the address typed into the browser
Boot ==
  /\ access_token \in {Null} \cup Tokens
  /\ cache = [k \in Keys |-> "absent"]
  /\ fetching = {}
  /\ pending = {}
  /\ unauthed = {}
  /\ server = Untouched
  /\ \E to \in Routes :
       location = navigate([token |-> access_token, cache |-> cache,
                            fetching |-> {}, unauthed |-> {},
                            location |-> "/login",
                            trace |-> <<>>], to, MaxRedirects).location
  /\ trace = <<>>

\* nothing is assumed of the server: any request may succeed or fail
Init == Boot /\ backend = "opaque"

\* the server rejects every request to a protected endpoint that carries no
\* bearer token
InitEnforcing == Boot /\ backend = "enforcing"

\* a link or the address bar asks the router for a route
Navigate(to) ==
  /\ Commit(navigate(Note(St, "navigate", to), to, MaxRedirects))
  /\ UNCHANGED <<pending, backend, server>>

\* a mounted component's query runs its queryFn
Fetch(key) ==
  /\ Observed(key, location)
  /\ key \notin fetching
  /\ Commit([Issue(St, key) EXCEPT !.fetching = @ \cup {key}])
  /\ UNCHANGED <<pending, backend, server>>

\* the query's fetch ends: a response replaces the entry's data, a failure
\* leaves the entry as it was
fetchEnded(st, key, ok) ==
  LET got == Note(st, IF ok THEN "fetchedOk" ELSE "fetchedErr", key)
      done == [got EXCEPT !.fetching = @ \ {key},
                          !.unauthed = @ \ {key},
                          !.cache[key] = IF ok THEN "fresh" ELSE @]
  IN IF ok THEN done ELSE queryFailed(done, key)

\* the response of a queryFn request arrives
FetchSettle(key, ok) ==
  /\ key \in fetching
  /\ ok => key \notin unauthed
  /\ Commit(fetchEnded(St, key, ok))
  /\ UNCHANGED <<pending, backend, server>>

\* an onSubmit that invalidates without waiting for the write to settle
Submit_invalidateEarly(kind) ==
  /\ location = PageOf(kind)
  /\ Layout(St) = "Outlet"
  /\ kind \notin pending
  /\ Cardinality(pending) < MaxPending
  /\ LET after == onSubmit(kind, St)
     IN /\ pending' = IF mutated(after) THEN pending \cup {kind} ELSE pending
        /\ Commit(IF mutated(after) THEN onSettled(kind, after) ELSE after)
  /\ UNCHANGED <<backend, server>>

\* a form of the routed page is submitted: its onSubmit runs, and the
\* mutation is pending once mutation.mutate(...) has issued the write request
Submit(kind) ==
  /\ location = PageOf(kind)
  /\ Layout(St) = "Outlet"
  /\ kind \notin pending
  /\ Cardinality(pending) < MaxPending
  /\ LET after == onSubmit(kind, St)
     IN /\ pending' = IF mutated(after) THEN pending \cup {kind} ELSE pending
        /\ Commit(after)
  /\ UNCHANGED <<backend, server>>

\* a settlement that runs the handlers and keeps the mutation pending
Settle_keepsPending(kind, res) ==
  /\ kind \in pending
  /\ res = "ok" => kind \notin unauthed
  /\ pending' = pending
  /\ Commit(useMutation_settle(kind, res,
                               [St EXCEPT !.unauthed = @ \ {kind}]))
  /\ UNCHANGED <<backend, server>>

\* the write request settles and the mutation's handlers run
Settle(kind, res) ==
  /\ kind \in pending
  /\ res = "ok" => kind \notin unauthed
  /\ pending' = pending \ {kind}
  /\ Commit(useMutation_settle(kind, res,
                               [St EXCEPT !.unauthed = @ \ {kind}]))
  /\ UNCHANGED <<backend, server>>

\* a login that stores the token before it knows the answer
Login_storesOnFailure(ok, t) ==
  /\ location = "/login"
  /\ LET sent == Send(Note(St, "login", ""), "login")
         kept == Note([sent EXCEPT !.token = t], "tokenSet", t)
     IN IF ok
        THEN Commit(invalidateQueries(kept, "currentUser"))
        ELSE Commit(Note(kept, "loginFailed", ""))
  /\ UNCHANGED <<pending, backend, server>>

\* Session Controller login(email, password)
Login(ok, t) ==
  /\ location = "/login"
  /\ LET sent == Send(Note(St, "login", ""), "login")
     IN IF ok
        THEN Commit(invalidateQueries(
               Note([sent EXCEPT !.token = t], "tokenSet", t), "currentUser"))
        ELSE Commit(Note(sent, "loginFailed", ""))
  /\ UNCHANGED <<pending, backend, server>>

\* a "Log out" entry that also tells the server
handleLogout_serverCall ==
  /\ location \in LayoutRoutes
  /\ Commit(Issue(logout(Note(St, "handleLogout", "")), "logout"))
  /\ UNCHANGED <<pending, backend, server>>

\* a "Log out" entry whose click handler does nothing
handleLogout_noop ==
  /\ location \in LayoutRoutes
  /\ Commit(Note(St, "handleLogout", ""))
  /\ UNCHANGED <<pending, backend, server>>

\* UserMenu.handleLogout
handleLogout ==
  /\ location \in LayoutRoutes
  /\ Commit(logout(Note(St, "handleLogout", "")))
  /\ UNCHANGED <<pending, backend, server>>

Next ==
  \/ \E to \in Routes : Navigate(to)
  \/ \E key \in Keys : Fetch(key)
  \/ \E key \in Keys, ok \in BOOLEAN : FetchSettle(key, ok)
  \/ \E kind \in MutationKinds : Submit(kind)
  \/ \E kind \in MutationKinds, res \in Outcomes : Settle(kind, res)
  \/ \E ok \in BOOLEAN, t \in Tokens : Login(ok, t)
  \/ handleLogout

Spec == Init /\ [][Next]_vars

\* ------------------------------------------------ every request settles
\* The session, the settings page and the layout's spinner, with the
\* assumption that the server answers every request it was sent: a fetch of
\* `currentUser` in flight and a pending write are eventually settled.

LiveRoutes == {"/login", "/", "/settings"}
LiveKinds == {"updateMe", "deleteMe"}

InitLive == Init /\ location \in LiveRoutes

NextLive ==
  \/ \E to \in LiveRoutes : Navigate(to)
  \/ Fetch("currentUser")
  \/ \E ok \in BOOLEAN : FetchSettle("currentUser", ok)
  \/ \E kind \in LiveKinds : Submit(kind)
  \/ \E kind \in LiveKinds, res \in Outcomes : Settle(kind, res)
  \/ \E ok \in BOOLEAN : Login(ok, "t1")
  \/ handleLogout

\* every request in flight is answered, with a response or with an error
AllSettle ==
  /\ WF_vars(\E ok \in BOOLEAN : FetchSettle("currentUser", ok))
  /\ \A kind \in LiveKinds : WF_vars(\E res \in Outcomes : Settle(kind, res))

SpecLive == InitLive /\ [][NextLive]_vars /\ AllSettle

\* ------------------------------------------------ the reset-password page
\* The session and the public reset-password page, opened with or without
\* the token of a recovery mail in its URL.

\* a resetPassword that rejects when the URL has no token
ResetPassword_resetPassword_rejecting(st) ==
  IF searchToken(st.location) = Null
  THEN Note(st, "throw", "missing token")
  ELSE Send(st, "resetPassword")

\* ResetPassword.resetPassword, the mutationFn: without a token in the URL it
\* returns at once, and the promise of the async function is fulfilled
ResetPassword_resetPassword(st) ==
  IF searchToken(st.location) = Null
  THEN st
  ELSE Send(st, "resetPassword")

ResetPassword_onSuccess(st) ==
  navigate(Note(reset(showToast(st, "success")), "navigate", "/login"),
           "/login", MaxRedirects)
ResetPassword_onError(st) == showToast(st, "error")

\* the handlers useMutation runs for an outcome
ResetPassword_settle(res, st) ==
  IF res = "ok"
  THEN ResetPassword_onSuccess(Note(st, "settledOk", "resetPassword"))
  ELSE ResetPassword_onError(Note(st, SettledOp(res), "resetPassword"))

\* positions of the trace where something happened
happened(st, op) == {i \in DOMAIN st.trace : st.trace[i].op = op}

\* ResetPassword.onSubmit: mutation.mutate(data) runs the mutationFn; when it
\* sent a request the mutation is pending until the response, and otherwise
\* its promise is settled already and the handlers run without the server
ResetSubmit ==
  /\ pathname(location) = "/reset-password"
  /\ "resetPassword" \notin pending
  /\ LET called == ResetPassword_resetPassword(
                     Note(St, "mutate", "resetPassword"))
     IN IF happened(called, "send") # {}
        THEN /\ pending' = pending \cup {"resetPassword"}
             /\ Commit(called)
        ELSE /\ pending' = pending
             /\ Commit(ResetPassword_settle(
                         IF happened(called, "throw") # {} THEN "error"
                         ELSE "ok", called))
  /\ UNCHANGED <<backend, server>>

\* the response to POST /reset-password/ arrives
ResetSettle(res) ==
  /\ "resetPassword" \in pending
  /\ pending' = pending \ {"resetPassword"}
  /\ Commit(ResetPassword_settle(res, St))
  /\ UNCHANGED <<backend, server>>

InitReset == Init

NextReset ==
  \/ \E to \in {"/login", "/", "/reset-password", ResetLink} : Navigate(to)
  \/ ResetSubmit
  \/ \E res \in Outcomes : ResetSettle(res)
  \/ Fetch("currentUser")
  \/ \E ok \in BOOLEAN : FetchSettle("currentUser", ok)
  \/ \E ok \in BOOLEAN : Login(ok, "t1")
  \/ handleLogout

SpecReset == InitReset /\ [][NextReset]_vars

\* ------------------------------------------- the admin page and its server
\* The same handlers, with one collection of the server tracked, `users` on
\* the admin page or `items` on the items page: every write the server
\* applies makes a new version of the collection, a GET of it answers with a
\* version the collection had between the moment the request was sent and the
\* moment the response arrives.

\* writes of one page that may be in flight together
MaxInFlight == 2
\* versions of the collection followed
MaxVersion == 3

\* the create and delete sites of the two pages
SyncKinds == {"createUser", "deleteUser", "createItem", "deleteItem"}
Creates == {"createUser", "createItem"}

\* the collection a write changes
collectionOf(kind) ==
  IF kind \in {"createItem", "deleteItem"} THEN "items" ELSE "users"

\* a handler that has sent a GET of the collection has asked for the version
\* of that moment (a fetch it replaced is cancelled)
asking(sv, tr) ==
  IF \E j \in 1..Len(tr) : tr[j].op = "send" /\ tr[j].arg = sv.key
  THEN [sv EXCEPT !.asked = sv.version]
  ELSE sv

InitSync ==
  /\ access_token = "t1"
  /\ cache = [k \in Keys |-> "absent"]
  /\ fetching = {}
  /\ pending = {}
  /\ backend = "opaque"
  /\ unauthed = {}
  /\ \E k \in {"users", "items"} :
       /\ server = [Untouched EXCEPT !.key = k]
       /\ location = IF k = "users" THEN "/admin" ELSE "/items"
  /\ trace = <<>>

\* the query of MembersTableBody or of ItemsTableBody runs its queryFn
SyncFetch ==
  /\ Observed(server.key, location)
  /\ server.key \notin fetching
  /\ Commit([Issue(St, server.key) EXCEPT !.fetching = @ \cup {server.key}])
  /\ server' = asking(server, trace')
  /\ UNCHANGED <<pending, backend>>

\* the response of the GET arrives
SyncFetchSettle(ok) ==
  /\ server.key \in fetching
  /\ Commit(fetchEnded(St, server.key, ok))
  /\ \E v \in server.asked .. server.version :
       server' = IF ok THEN [server EXCEPT !.held = v] ELSE server
  /\ UNCHANGED <<pending, backend>>

\* onSubmit of AddUser, AddItem or Delete; Delete is opened from the
\* ActionsMenu of a row, which the table renders once the list is loaded;
\* the Add button of the Navbar is on screen while the table still loads
SyncSubmit(kind) ==
  /\ collectionOf(kind) = server.key
  /\ location = PageOf(kind)
  /\ kind \notin Creates => cache[server.key] # "absent"
  /\ kind \notin pending
  /\ Cardinality(pending) < MaxInFlight
  /\ pending' = pending \cup {kind}
  /\ Commit(mutationFn(kind, Note(St, "mutate", kind)))
  /\ server' = asking([server EXCEPT !.issued = Append(@, kind)], trace')
  /\ UNCHANGED backend

\* the server applies a write that is in flight
ServerWrite(kind) ==
  /\ kind \in pending
  /\ kind \notin server.applied
  /\ server.version < MaxVersion
  /\ server' = [server EXCEPT
                  !.version = @ + 1,
                  !.applied = @ \cup {kind},
                  !.created = IF kind \in Creates THEN server.version + 1
                              ELSE @]
  /\ trace' = <<Eff("applied", kind, NoHeader, access_token)>>
  /\ UNCHANGED <<access_token, cache, fetching, pending, backend, unauthed,
                 location>>

\* the write request settles: a 2xx response only for a write the server has
\* applied
SyncSettle(kind, res) ==
  /\ kind \in pending
  /\ res = "ok" => kind \in server.applied
  /\ pending' = pending \ {kind}
  /\ Commit(useMutation_settle(kind, res, St))
  /\ server' =
       asking([server EXCEPT
                 !.applied = @ \ {kind},
                 !.created = IF kind \in Creates /\ res # "ok" THEN 0 ELSE @,
                 !.issued = SelectSeq(@, LAMBDA k : k # kind),
                 !.outOfOrder = @ \/ server.issued[1] # kind],
              trace')
  /\ UNCHANGED backend

NextSync ==
  \/ \E to \in {"/admin", "/items"} : Navigate(to)
  \/ SyncFetch
  \/ \E ok \in BOOLEAN : SyncFetchSettle(ok)
  \/ \E kind \in SyncKinds : SyncSubmit(kind)
  \/ \E kind \in SyncKinds : ServerWrite(kind)
  \/ \E kind \in SyncKinds, res \in Outcomes : SyncSettle(kind, res)

SpecSync == InitSync /\ [][NextSync]_vars

SpecEnforcing == InitEnforcing /\ [][Next]_vars

\* ------------------------------------------------ the admin list and "You"
\* The session and the admin page with the identity of the users: each token
\* belongs to a user, GET /users/me answers with the user of the token it was
\* sent with, and the list has a row for each user.

Users == {"u1", "u2"}

\* the user a token was issued to
owner(t) == IF t = "t1" THEN "u1" ELSE "u2"

\* queryClient.getQueryData(["currentUser"])
getQueryData_currentUser(st, sv) ==
  IF st.cache["currentUser"] = "absent" THEN Null ELSE sv.me

\* MembersTableBody: disabled={currentUser?.id === user.id ? true : false}
ActionsMenu_disabled(currentUser, user) == currentUser = user

\* a handler that has sent GET /users/me has asked as the user of the token
\* the request carried
whoAsks(sv, tr) ==
  LET sends == {j \in DOMAIN tr : tr[j].op = "send" /\ tr[j].arg = "currentUser"}
  IN IF sends = {} THEN sv
     ELSE [sv EXCEPT !.askedAs = tr[CHOOSE j \in sends : \A i \in sends : i <= j].tok]

InitAdmin == InitEnforcing

\* a mounted component's query runs its queryFn
AdminFetch(key) ==
  /\ Observed(key, location)
  /\ key \notin fetching
  /\ Commit([Issue(St, key) EXCEPT !.fetching = @ \cup {key}])
  /\ server' = whoAsks(server, trace')
  /\ UNCHANGED <<pending, backend>>

\* the response of a queryFn request arrives
AdminFetchSettle(key, ok) ==
  /\ key \in fetching
  /\ ok => key \notin unauthed
  /\ Commit(fetchEnded(St, key, ok))
  /\ server' = IF ok /\ key = "currentUser"
               THEN [server EXCEPT !.me = owner(server.askedAs)]
               ELSE server
  /\ UNCHANGED <<pending, backend>>

\* "Delete User" is chosen in the ActionsMenu of a row of the list and
\* confirmed: Delete.onSubmit calls mutation.mutate(id) with the id of the row
AdminDelete(user) ==
  /\ location = "/admin"
  /\ Layout(St) = "Outlet"
  /\ cache["users"] # "absent"
  /\ ~ActionsMenu_disabled(getQueryData_currentUser(St, server), user)
  /\ "deleteUser" \notin pending
  /\ Cardinality(pending) < MaxPending
  /\ pending' = pending \cup {"deleteUser"}
  /\ Commit(mutationFn("deleteUser",
                       Note(Note(St, "mutate", "deleteUser"), "row", user)))
  /\ UNCHANGED <<backend, server>>

NextAdmin ==
  \/ \E to \in {"/login", "/", "/admin"} : Navigate(to)
  \/ \E key \in {"currentUser", "users"} : AdminFetch(key)
  \/ \E key \in {"currentUser", "users"}, ok \in BOOLEAN :
       AdminFetchSettle(key, ok)
  \/ \E user \in Users : AdminDelete(user)
  \/ \E res \in Outcomes : Settle("deleteUser", res)
  \/ \E ok \in BOOLEAN, t \in Tokens : Login(ok, t)
  \/ handleLogout

SpecAdmin == InitAdmin /\ [][NextAdmin]_vars

\* ------------------------------------------------------- reading a trace
SettleOps == {"settledOk", "settledErr", "settledAuthErr"}
TokenOps == {"tokenClear", "tokenSet"}
UserKinds == {"createUser", "updateUser", "deleteUser"}
ItemKinds == {"createItem", "updateItem", "deleteItem"}

\* positions of an operation in a trace
At(tr, ops) == {i \in DOMAIN tr : tr[i].op \in ops}
\* keys a trace invalidates
InvalidatedIn(tr) == {tr[i].arg : i \in At(tr, {"invalidate"})}
\* the trace is the settlement of a mutation of one of these kinds
SettlementOf(tr, kinds) ==
  tr # <<>> /\ tr[1].op \in SettleOps /\ tr[1].arg \in kinds
\* the header a request carries when the store holds ls
Expected(ls) == IF ls = Null THEN <<>> ELSE <<"Bearer", ls>>
\* an invalidated entry that is cached and observed is refetched afterwards
RefetchedAfterInvalidate(tr, k) ==
  \E i \in At(tr, {"invalidate"}) :
    /\ tr[i].arg = k
    /\ (cache[k] # "absent" /\ Observed(k, location)) =>
         /\ k \in fetching
         /\ \E j \in At(tr, {"send"}) : j > i /\ tr[j].arg = k
\* the affected-entry mapping of the cache policy
Mapped(kind) ==
  CASE kind \in UserKinds -> {"users"}
    [] kind \in ItemKinds -> {"items"}
    [] kind \in {"updateMe", "changePassword"} -> {"users", "currentUser"}
    [] kind = "deleteMe" -> {"currentUser"}

\* ----------------------------------------------------------------- claims

\* C1: a navigation to a route under the authenticated layout made while
\* isLoggedIn() is false ends on the login route after a redirect, and no
\* route of the protected subtree is rendered by it.
C1_RouteGuard ==
  (trace # <<>> /\ trace[1].op = "navigate" /\ trace[1].arg \in LayoutRoutes
     /\ trace[1].tok = Null)
  => /\ location = "/login"
     /\ \E i \in At(trace, {"redirect"}) : trace[i].arg = "/login"
     /\ \A i \in At(trace, {"render"}) : trace[i].arg \notin LayoutRoutes

C1_Witness ==
  /\ trace # <<>> /\ trace[1].op = "navigate" /\ trace[1].arg = "/items"
  /\ access_token = Null
  /\ location = "/login"

C3_UserMutationFrame ==
  [][SettlementOf(trace', UserKinds) =>
       /\ InvalidatedIn(trace') = {"users"}
       /\ cache'["users"] = (IF cache["users"] = "absent" THEN "absent" ELSE "stale")
       /\ cache'["items"] = cache["items"]
       /\ cache'["currentUser"] = cache["currentUser"]]_vars

C3_Witness ==
  /\ SettlementOf(trace, {"createUser"})
  /\ cache["users"] = "stale"
  /\ cache["items"] = "fresh" /\ cache["currentUser"] = "fresh"

\* C4: the settlement of a create, update or delete of an Item invalidates
\* `items` and nothing else; `users` and `currentUser` keep their state.
C4_ItemMutationFrame ==
  [][SettlementOf(trace', ItemKinds) =>
       /\ InvalidatedIn(trace') = {"items"}
       /\ cache'["items"] = (IF cache["items"] = "absent" THEN "absent" ELSE "stale")
       /\ cache'["users"] = cache["users"]
       /\ cache'["currentUser"] = cache["currentUser"]]_vars

C4_Witness ==
  /\ SettlementOf(trace, {"deleteItem"})
  /\ cache["items"] = "stale"
  /\ cache["users"] = "fresh" /\ cache["currentUser"] = "fresh"

\* C5: when update-me settles, both `users` and `currentUser` are
\* invalidated: neither is left fresh.
C5_UpdateMeInvalidatesBoth ==
  SettlementOf(trace, {"updateMe"}) =>
    /\ InvalidatedIn(trace) = {"users", "currentUser"}
    /\ cache["users"] # "fresh" /\ cache["currentUser"] # "fresh"

C5_Witness ==
  /\ SettlementOf(trace, {"updateMe"})
  /\ cache["users"] = "stale" /\ cache["currentUser"] = "stale"

C7_DeleteOwnAccount ==
  /\ [](SettlementOf(trace, {"deleteMe"}) /\ trace[1].op = "settledOk" =>
          /\ access_token = Null
          /\ At(trace, {"tokenClear"}) # {}
          /\ "currentUser" \in InvalidatedIn(trace)
          /\ cache["currentUser"] # "fresh")
  /\ [][access_token = Null /\ access_token' # Null =>
          trace'[1].op = "login" /\ At(trace', {"tokenSet"}) # {}]_vars

C7_Witness ==
  /\ SettlementOf(trace, {"deleteMe"}) /\ trace[1].op = "settledOk"
  /\ access_token = Null
  /\ cache["currentUser"] = "stale"

\* C8: in a flow that changes the token and invalidates cache entries, the
\* token change comes first, and every request sent from the invalidation on
\* carries the header of the token as changed.
C8_TokenBeforeInvalidate ==
  \A i \in At(trace, TokenOps) :
    /\ \A j \in At(trace, {"invalidate"}) : i < j
    /\ \A j \in At(trace, {"send"}) :
         (\E m \in At(trace, {"invalidate"}) : m < j) =>
           trace[j].auth = Expected(access_token)

C8_Witness ==
  /\ SettlementOf(trace, {"deleteMe"})
  /\ \E i \in At(trace, {"tokenClear"}) :
       \E j \in At(trace, {"send"}) :
         i < j /\ trace[j].arg = "currentUser" /\ trace[j].auth = NoHeader

\* C9: the resolver reads the Token Store for every request: a request sent
\* after the last token change of a handler carries the token now stored.
C9_ResolverReadsFresh ==
  \A j \in At(trace, {"send"}) :
    (\A i \in At(trace, TokenOps) : i < j) =>
      trace[j].auth = Expected(access_token)

C9_Witness ==
  \E i \in At(trace, TokenOps) :
    \E j \in At(trace, {"send"}) :
      i < j /\ trace[j].auth = Expected(access_token)

\* C10: a request carries `Authorization: Bearer <token>` exactly when a
\* token is stored at the time it is made; after a logout the token is
\* absent and the requests made omit the header.
C10_BearerIffTokenPresent ==
  /\ \A j \in At(trace, {"send"}) :
       /\ (trace[j].auth # NoHeader) <=> (trace[j].tok # Null)
       /\ trace[j].tok # Null => trace[j].auth = <<"Bearer", trace[j].tok>>
  /\ (trace # <<>> /\ trace[1].op = "handleLogout") => access_token = Null
  /\ access_token = Null =>
       \A j \in At(trace, {"send"}) :
         (\A i \in At(trace, TokenOps) : i < j) => trace[j].auth = NoHeader

C10_Witness ==
  /\ access_token = Null /\ location \in LayoutRoutes
  /\ trace # <<>> /\ trace[1].op = "send" /\ trace[1].auth = NoHeader

C12_AbsentWhenUnauthenticated ==
  ~isLoggedIn(access_token) => \A k \in Keys : cache[k] = "absent"

\* ---------------------------------------------------------------- C13
\* C13: a response that arrives after the logout is discarded: once the token
\* has been cleared, the result of a request issued before the clear is never
\* written into a cache entry.
C13_LateResponseDiscarded ==
  [][ (trace'[1].op = "fetchedOk" /\ ~isLoggedIn(access_token)) =>
        cache' = cache ]_vars

\* ---------------------------------------------------------------- C14
\* C14: after two writes to `users` have settled in another order
\* than they were submitted, once nothing is in flight any more the list in
\* the cache is the server's list after its last write.
C14_CacheReflectsLastWrite ==
  (/\ server.key = "users"
   /\ server.outOfOrder
   /\ pending = {}
   /\ "users" \notin fetching
   /\ cache["users"] = "fresh") =>
    server.held = server.version

\* write requests among the effects of one handler
WritesIn(tr) == {j \in At(tr, {"send"}) : tr[j].arg \in MutationKinds}

\* ---------------------------------------------------------------- C15
\* C15: the cached collections `users` and `items` are only ever invalidated
\* or replaced by the response of a refetch: an entry changes only to stale,
\* by an invalidation of that entry when it holds data, or to fresh, by the
\* response of its own queryFn; no handler writes into an entry itself.
C15_CollectionsNeverWrittenInPlace ==
  [][ \A k \in {"users", "items"} :
        /\ At(trace', {"setQueryData"}) = {}
        /\ cache'[k] # cache[k] =>
             \/ /\ cache'[k] = "fresh"
                /\ trace'[1].op = "fetchedOk"
                /\ trace'[1].arg = k
             \/ /\ cache'[k] = "stale"
                /\ cache[k] # "absent"
                /\ \E j \in At(trace', {"invalidate"}) : trace'[j].arg = k
    ]_vars

\* a user has just been created: the cached list is stale and being refetched
C15_Witness ==
  /\ trace # <<>>
  /\ trace[1].op = "settledOk"
  /\ trace[1].arg = "createUser"
  /\ cache["users"] = "stale"
  /\ "users" \in fetching

\* ---------------------------------------------------------------- C16
\* C16: a mutation's invalidation is never issued before its write request has
\* settled: the handler that submits the write invalidates nothing and leaves
\* the write in flight, and every invalidation belongs to a handler that
\* starts with a settlement (or with the login), whose write is then no longer
\* in flight.
C16_InvalidateAfterSettle ==
  trace # <<>> =>
    /\ trace[1].op = "mutate" =>
         (At(trace, {"invalidate"}) = {} /\ trace[1].arg \in pending)
    /\ At(trace, {"invalidate"}) # {} =>
         trace[1].op \in SettleOps \cup {"login"}
    /\ trace[1].op \in SettleOps => trace[1].arg \notin pending

\* the deletion of an item has settled and only then `items` is invalidated
C16_Witness ==
  /\ trace # <<>>
  /\ trace[1].op \in SettleOps
  /\ trace[1].arg = "deleteItem"
  /\ "deleteItem" \notin pending
  /\ \E j \in At(trace, {"invalidate"}) : j > 1 /\ trace[j].arg = "items"

\* ---------------------------------------------------------------- C17
\* C17: every submission of a mutation form sends exactly one write request,
\* the one of its mutation site (never none, never more), and no other
\* handler (a settlement included) sends a write request.
C17_ExactlyOneWrite ==
  trace # <<>> =>
    IF trace[1].op \in {"mutate", "onSubmit"}
    THEN /\ Cardinality(WritesIn(trace)) = 1
         /\ \A j \in WritesIn(trace) : trace[j].arg = trace[1].arg
    ELSE WritesIn(trace) = {}

\* ---------------------------------------------------------------- C18
\* C18: a write request that fails (no response, or a non-2xx response) is
\* never thrown into the render tree: the settlement shows an error toast and
\* throws nothing, and the submission throws nothing either.
C18_MutationErrorsBecomeToasts ==
  trace # <<>> =>
    /\ trace[1].op \in {"settledErr", "settledAuthErr"} =>
         /\ \E j \in At(trace, {"toast"}) : trace[j].arg = "error"
         /\ At(trace, {"throw"}) = {}
    /\ trace[1].op = "mutate" => At(trace, {"throw"}) = {}

\* the deletion of a user has failed and the error toast is shown
C18_Witness ==
  /\ trace # <<>>
  /\ trace[1].op = "settledErr"
  /\ trace[1].arg = "deleteUser"
  /\ \E j \in At(trace, {"toast"}) : trace[j].arg = "error"

\* ---------------------------------------------------------------- C19
\* C19: what a failed fetch of `items` or `users` throws is caught by a
\* boundary no wider than the table that reads the collection.
C19_BoundaryScopedToTable ==
  \A j \in At(trace, {"caught"}) : trace[j].arg = "table"

\* ---------------------------------------------------------------- C20
\* C20: when the server rejects a write because the token is expired or
\* invalid, the stored token is destroyed: isLoggedIn() is false once the
\* rejection has been handled.
C20_AuthErrorForcesLogout ==
  (trace # <<>> /\ trace[1].op = "settledAuthErr") =>
    ~isLoggedIn(access_token)

\* ---------------------------------------------------------------- C22
\* C22: a login that fails surfaces the failure and changes no session state:
\* the token store is as it was (no token is stored), the cache is as it was
\* (`currentUser` stays absent) and the user stays on the login page.
C22_FailedLoginChangesNothing ==
  [][ (trace'[1].op = "login" /\ At(trace', {"loginFailed"}) # {}) =>
        /\ access_token' = access_token
        /\ cache' = cache
        /\ fetching' = fetching
        /\ location' = location
        /\ At(trace', {"tokenSet", "invalidate"}) = {} ]_vars

\* a login has just failed for a user without a session
C22_Witness ==
  /\ trace # <<>>
  /\ trace[1].op = "login"
  /\ At(trace, {"loginFailed"}) # {}
  /\ access_token = Null
  /\ cache["currentUser"] = "absent"

\* ---------------------------------------------------------------- C24
\* C24: a settlement of a User or Item mutation invalidates the collection it
\* maps to exactly once; and invalidating is idempotent: handling the same
\* settlement a second time leaves the cache entries, the fetches in flight
\* and the token as the first handling left them.
C24_InvalidatedOnceIdempotent ==
  /\ SettlementOf(trace, UserKinds \cup ItemKinds) =>
       \A k \in Mapped(trace[1].arg) :
         Cardinality({j \in At(trace, {"invalidate"}) : trace[j].arg = k}) = 1
  /\ \A kind \in UserKinds \cup ItemKinds :
       LET once  == useMutation_settle(kind, "ok", St)
           twice == useMutation_settle(kind, "ok", once)
       IN /\ twice.cache = once.cache
          /\ twice.fetching = once.fetching
          /\ twice.token = once.token

\* an item has been deleted: `items`, loaded and on screen, was invalidated
C24_Witness ==
  /\ SettlementOf(trace, {"deleteItem"})
  /\ trace[1].op = "settledOk"
  /\ cache["items"] = "stale"
  /\ "items" \in fetching
  /\ Cardinality(At(trace, {"invalidate"})) = 1

\* ---------------------------------------------------------------- C25
\* C25: a logout never calls the server: the click on "Log out" sends no
\* request and leaves no request in flight that was not in flight before; it
\* only clears the token.
C25_LogoutSendsNothing ==
  (trace # <<>> /\ trace[1].op = "handleLogout") =>
    /\ At(trace, {"send"}) = {}
    /\ \A j \in DOMAIN trace : trace[j].op \in {"handleLogout", "tokenClear"}

\* the user has just logged out: the only effect was the clearing of the token
C25_Witness ==
  /\ trace # <<>>
  /\ trace[1].op = "handleLogout"
  /\ Len(trace) = 2
  /\ trace[2].op = "tokenClear"

\* ---------------------------------------------------------------- C27
\* C27: when the delete-own-account request fails no logout is performed: the
\* token is not touched, the dialog is not closed, an error toast is shown and
\* the only other effect is the invalidation of `currentUser`.
C27_FailedDeleteMeKeepsSession ==
  (SettlementOf(trace, {"deleteMe"}) /\ trace[1].op # "settledOk") =>
    /\ At(trace, {"tokenClear", "tokenSet", "close", "navigate"}) = {}
    /\ \A j \in DOMAIN trace : trace[j].tok = trace[1].tok
    /\ access_token = trace[1].tok
    /\ \E j \in At(trace, {"toast"}) : trace[j].arg = "error"
    /\ InvalidatedIn(trace) = {"currentUser"}

\* the deletion of the own account has failed and the user is still logged in
C27_Witness ==
  /\ SettlementOf(trace, {"deleteMe"})
  /\ trace[1].op = "settledErr"
  /\ isLoggedIn(access_token)
  /\ location = "/settings"

\* ---------------------------------------------------------------- C29
\* C29: for every state of the token store exactly one of the two guards lets
\* the navigation through; /reset-password is entered only without a token and
\* a layout route only with one; and the router never gives up on a chain of
\* redirects: one redirect at most is followed.
C29_GuardsComplementary ==
  /\ \A ls \in {Null} \cup Tokens :
       (beforeLoad("/reset-password", ls) = "pass")
         # (beforeLoad("/", ls) = "pass")
  /\ (trace # <<>> /\ trace[1].op = "navigate") =>
       /\ At(trace, {"giveup"}) = {}
       /\ Cardinality(At(trace, {"redirect"})) <= 1
       /\ location = "/reset-password" => ~isLoggedIn(access_token)
       /\ location \in LayoutRoutes => isLoggedIn(access_token)

\* a logged-in user asked for /reset-password and was sent to "/"
C29_Witness ==
  /\ trace # <<>>
  /\ trace[1].op = "navigate"
  /\ trace[1].arg = "/reset-password"
  /\ isLoggedIn(access_token)
  /\ location = "/"
  /\ Cardinality(At(trace, {"redirect"})) = 1

\* ---------------------------------------------------------------- C28
\* C28: whenever the delete-own-account confirmation is submitted the
\* `currentUser` entry is cached: the dereference of the cached user does not
\* fail and the delete request is issued.
C28_CurrentUserCachedOnSubmit ==
  (trace # <<>> /\ trace[1].op \in {"onSubmit", "mutate"}
     /\ trace[1].arg = "deleteMe") =>
    /\ cache["currentUser"] # "absent"
    /\ At(trace, {"throw"}) = {}
    /\ \E j \in At(trace, {"send"}) : trace[j].arg = "deleteMe"

\* ---------------------------------------------------------------- C21
\* C21: if every request in flight is eventually answered, the layout's
\* spinner is eventually replaced by the page, and a pending mutation is
\* eventually gone: its settlement destroys it.
C21_NoStuckLoading ==
  /\ (Layout(St) = "Spinner") ~> (Layout(St) = "Outlet")
  /\ \A kind \in LiveKinds : (kind \in pending) ~> (kind \notin pending)

\* the load of the current user has failed: the spinner is gone, the page is
\* shown without a cached user, and no mutation is pending
C21_Witness ==
  /\ trace # <<>>
  /\ trace[1].op = "fetchedErr"
  /\ trace[1].arg = "currentUser"
  /\ location = "/settings"
  /\ cache["currentUser"] = "absent"
  /\ Layout(St) = "Outlet"
  /\ pending = {}

C23_CreatedItemIsRead ==
  (server.key = "items" /\ server.created > 0 /\ "createItem" \notin pending) =>
    /\ (SettlementOf(trace, {"createItem"}) /\ trace[1].op = "settledOk") =>
         cache["items"] # "fresh"
    /\ (cache["items"] = "fresh" /\ "items" \notin fetching) =>
         server.held >= server.created

\* ---------------------------------------------------------------- C30
\* C30: the actions menu of a row is disabled exactly when a current user is
\* cached and the row is that user's, no row is disabled when none is cached;
\* and so, while a current user is cached, no deletion started from the list
\* is aimed at the user who is logged in.
C30_OwnRowDisabled ==
  /\ \A user \in Users :
       ActionsMenu_disabled(getQueryData_currentUser(St, server), user) <=>
         (cache["currentUser"] # "absent" /\ server.me = user)
  /\ (/\ trace # <<>>
      /\ trace[1].op = "mutate"
      /\ trace[1].arg = "deleteUser"
      /\ isLoggedIn(access_token)
      /\ cache["currentUser"] # "absent") =>
       \A j \in At(trace, {"row"}) : trace[j].arg # owner(access_token)

====
